---- MODULE Spec2Model ----
(***************************************************************************)
(* EKSImageDeployer: a CLI that sets container image versions on a set of  *)
(* Kubernetes deployments.  The repository holds two builds of the same    *)
(* program: src/main.go and src/unnamed/part_001.  Both are modelled; the  *)
(* variable "variant" says which build a behaviour belongs to.             *)
(*                                                                         *)
(* Strings are sequences of atoms.  An atom is one character or a chunk of *)
(* characters that holds no separator (a version tag such as "v1").  The   *)
(* separators "," ":" "/" and the white space " " "\t" "\n" are atoms of   *)
(* their own, so that Split and TrimSpace are computed as the Go code      *)
(* computes them.                                                          *)
(***************************************************************************)
EXTENDS Bags, FiniteSets, Integers, Sequences, TLC

\* ------------------------------------------------------------------ bounds
\* longest -services argument (in atoms) the resolver is checked with
MaxInputLen == 3
\* longest -services argument (in atoms) a whole command is checked with
MaxScopeLen == 1

\* ---------------------------------------------------------------- strings
Variants == {"main_go", "part_001"}

EmptyString == << >>

WhiteSpace == {" ", "\t", "\n"}

\* strings.Split(s, sep) for a one-atom separator: always Count(sep)+1 parts
RECURSIVE SplitFrom(_, _, _, _, _)
SplitFrom(s, sep, i, cur, acc) ==
    IF i > Len(s) THEN Append(acc, cur)
    ELSE IF s[i] = sep THEN SplitFrom(s, sep, i + 1, EmptyString, Append(acc, cur))
    ELSE SplitFrom(s, sep, i + 1, Append(cur, s[i]), acc)

Split(s, sep) == SplitFrom(s, sep, 1, EmptyString, << >>)

RECURSIVE TrimLeft(_)
TrimLeft(s) ==
    IF s = EmptyString THEN s
    ELSE IF s[1] \in WhiteSpace THEN TrimLeft(Tail(s)) ELSE s

RECURSIVE TrimRight(_)
TrimRight(s) ==
    IF s = EmptyString THEN s
    ELSE IF s[Len(s)] \in WhiteSpace THEN TrimRight(SubSeq(s, 1, Len(s) - 1)) ELSE s

\* strings.TrimSpace
TrimSpace(s) == TrimRight(TrimLeft(s))

\* strings.ToLower on the answers the prompt is given
ToLower(s) ==
    [i \in 1..Len(s) |->
        CASE s[i] = "Y" -> "y"
          [] s[i] = "N" -> "n"
          [] s[i] = "E" -> "e"
          [] s[i] = "S" -> "s"
          [] OTHER -> s[i]]

\* all strings of at most n atoms over an alphabet
RECURSIVE StringsUpTo(_, _)
StringsUpTo(alphabet, n) ==
    IF n = 0 THEN {EmptyString}
    ELSE LET shorter == StringsUpTo(alphabet, n - 1)
         IN  shorter \cup {Append(s, c) : s \in shorter, c \in alphabet}

\* all orders in which a Go map with key set S can be ranged over
RECURSIVE Orders(_)
Orders(S) ==
    IF S = {} THEN {<< >>}
    ELSE UNION {{<<k>> \o o : o \in Orders(S \ {k})} : k \in S}

Range(f) == {f[i] : i \in DOMAIN f}

\* m[k] = v on a Go map
Put(m, k, v) == [x \in (DOMAIN m) \cup {k} |-> IF x = k THEN v ELSE m[x]]

EmptyMap == [x \in {} |-> EmptyString]

\* ------------------------------------------------------- services.json
ServiceA == <<"a">>
ServiceB == <<"b">>
ServiceC == <<"c">>
GroupG == <<"g">>

SingleNames == {ServiceA, ServiceB}
GroupNames == {ServiceA, GroupG}

\* the default version each entry carries in the configurations checked
SingleVersion(n) == IF n = ServiceA THEN <<"v1">> ELSE <<"v2">>
GroupVersion(n) == IF n = ServiceA THEN <<"v3">> ELSE <<"v4">>
GroupMembers(n) == IF n = ServiceA THEN <<ServiceB, ServiceC>> ELSE <<ServiceC, ServiceA>>

EntryStates == {"absent", "enabled", "disabled"}

\* ServiceConfig built from the presence and the enabled flag of each entry
MkServiceConfig(ss, gs) ==
    [SingleServices |->
        [n \in {m \in SingleNames : ss[m] # "absent"} |->
            [Enabled |-> ss[n] = "enabled", Version |-> SingleVersion(n)]],
     ServiceGroups |->
        [n \in {m \in GroupNames : gs[m] # "absent"} |->
            [Enabled |-> gs[n] = "enabled", Version |-> GroupVersion(n),
             Services |-> GroupMembers(n)]]]

ServiceConfigs ==
    {MkServiceConfig(ss, gs) : ss \in [SingleNames -> EntryStates],
                               gs \in [GroupNames -> EntryStates]}

\* the zero value of ServiceConfig, before LoadConfigs has run
NoServiceConfig == [SingleServices |-> EmptyMap, ServiceGroups |-> EmptyMap]

\* ------------------------------------------------------------ resolver
selectVersion(inputVersion, defaultVersion) ==
    IF inputVersion # EmptyString THEN inputVersion ELSE defaultVersion

\* for _, service := range group.Services { selected[service] = version }
RECURSIVE PutMembers(_, _, _)
PutMembers(sel, members, version) ==
    IF members = << >> THEN sel
    ELSE PutMembers(Put(sel, Head(members), version), Tail(members), version)

getEnabledServices(svc) ==
    {n \in DOMAIN svc.SingleServices : svc.SingleServices[n].Enabled}
    \cup UNION {Range(svc.ServiceGroups[g].Services) :
                    g \in {h \in DOMAIN svc.ServiceGroups : svc.ServiceGroups[h].Enabled}}

\* the version an entry gets when -services is empty: src/main.go copies the
\* entry's own version and leaves versionInput unused, src/unnamed/part_001
\* calls selectVersion
allVersion(v, versionInput, defaultVersion) ==
    IF v = "main_go" THEN defaultVersion
    ELSE selectVersion(versionInput, defaultVersion)

\* the range over the single services; the keys are distinct and each is
\* written once, so the order of the range over the map does not show
allSingles(v, svc, versionInput) ==
    [n \in {m \in DOMAIN svc.SingleServices : svc.SingleServices[m].Enabled} |->
        allVersion(v, versionInput, svc.SingleServices[n].Version)]

\* allGroups without the test of group.Enabled
RECURSIVE allGroupsAnyFlag(_, _, _, _, _)
allGroupsAnyFlag(v, svc, sel, versionInput, groupOrder) ==
    IF groupOrder = << >> THEN sel
    ELSE LET group == svc.ServiceGroups[Head(groupOrder)]
         IN  allGroupsAnyFlag(v, svc,
                              PutMembers(sel, group.Services,
                                         allVersion(v, versionInput, group.Version)),
                              versionInput, Tail(groupOrder))

\* the range over the groups map, in the order groupOrder
RECURSIVE allGroups(_, _, _, _, _)
allGroups(v, svc, sel, versionInput, groupOrder) ==
    IF groupOrder = << >> THEN sel
    ELSE LET group == svc.ServiceGroups[Head(groupOrder)]
             next == IF group.Enabled
                     THEN PutMembers(sel, group.Services,
                                     allVersion(v, versionInput, group.Version))
                     ELSE sel
         IN  allGroups(v, svc, next, versionInput, Tail(groupOrder))

\* the branch of getSelectedServices for an empty -services
allEnabled(v, svc, versionInput, groupOrder) ==
    allGroups(v, svc, allSingles(v, svc, versionInput), versionInput, groupOrder)

\* src/main.go: one token of the list; no trimming, both lookups are made
MainGoToken(svc, sel, service, versionInput) ==
    LET single == IF service \in DOMAIN svc.SingleServices
                     /\ svc.SingleServices[service].Enabled
                  THEN Put(sel, service,
                           selectVersion(versionInput, svc.SingleServices[service].Version))
                  ELSE sel
    IN  IF service \in DOMAIN svc.ServiceGroups /\ svc.ServiceGroups[service].Enabled
        THEN PutMembers(single, svc.ServiceGroups[service].Services,
                        selectVersion(versionInput, svc.ServiceGroups[service].Version))
        ELSE single

RECURSIVE MainGoTokens(_, _, _, _)
MainGoTokens(svc, sel, serviceList, versionInput) ==
    IF serviceList = << >> THEN sel
    ELSE MainGoTokens(svc, MainGoToken(svc, sel, Head(serviceList), versionInput),
                      Tail(serviceList), versionInput)

\* src/unnamed/part_001: one token; trimmed, the first lookup that matches
\* ends the iteration, a token that matches nothing is logged
Part001Token(svc, acc, rawService, versionInput) ==
    LET service == TrimSpace(rawService)
    IN  IF service \in DOMAIN svc.SingleServices /\ svc.SingleServices[service].Enabled
        THEN [selected |-> Put(acc.selected, service,
                               selectVersion(versionInput, svc.SingleServices[service].Version)),
              warnings |-> acc.warnings]
        ELSE IF service \in DOMAIN svc.ServiceGroups /\ svc.ServiceGroups[service].Enabled
        THEN [selected |-> PutMembers(acc.selected, svc.ServiceGroups[service].Services,
                               selectVersion(versionInput, svc.ServiceGroups[service].Version)),
              warnings |-> acc.warnings]
        ELSE [selected |-> acc.selected, warnings |-> Append(acc.warnings, service)]

RECURSIVE Part001Tokens(_, _, _, _)
Part001Tokens(svc, acc, servicesList, versionInput) ==
    IF servicesList = << >> THEN acc
    ELSE Part001Tokens(svc, Part001Token(svc, acc, Head(servicesList), versionInput),
                       Tail(servicesList), versionInput)

\* getSelectedServices of build v: the mapping returned and the tokens for
\* which a warning line was written to the log
getSelectedServices(v, svc, servicesInput, versionInput, groupOrder) ==
    IF v = "main_go"
    THEN [selected |-> IF servicesInput = EmptyString
                       THEN allEnabled(v, svc, versionInput, groupOrder)
                       ELSE MainGoTokens(svc, EmptyMap, Split(servicesInput, ","), versionInput),
          warnings |-> << >>]
    ELSE IF servicesInput = EmptyString
         THEN [selected |-> allEnabled(v, svc, versionInput, groupOrder), warnings |-> << >>]
         ELSE Part001Tokens(svc, [selected |-> EmptyMap, warnings |-> << >>],
                            Split(servicesInput, ","), versionInput)

\* ------------------------------------------------------ cluster reader
\* config.json: the environments of the configurations checked
Environments ==
    [e \in {"pre"} |-> [Context |-> "ctx-pre", Registry |-> <<"reg">>, Namespace |-> "ns"]]

\* fmt.Sprintf("%s/%s:%s", registry, service, version)
Image(registry, service, version) == registry \o <<"/">> \o service \o <<":">> \o version

ServiceZ == <<"z">>

\* the order in which kubectl lists the deployments of a namespace
DeploymentOrder == <<ServiceA, ServiceB, ServiceC, ServiceZ>>

\* the text kubectl prints for the jsonpath template: name TAB image NEWLINE
RECURSIVE kubectlRows(_, _)
kubectlRows(cl, order) ==
    IF order = << >> THEN EmptyString
    ELSE IF Head(order) \in DOMAIN cl
         THEN Head(order) \o <<"\t">> \o cl[Head(order)] \o <<"\n">>
              \o kubectlRows(cl, Tail(order))
         ELSE kubectlRows(cl, Tail(order))

kubectlGetDeployment(cl) == kubectlRows(cl, DeploymentOrder)

\* one line of the output, in the loop of getCurrentVersions
versionsLine(versions, enabledServices, line) ==
    IF line = EmptyString THEN versions
    ELSE LET parts == Split(line, "\t")
         IN  IF Len(parts) # 2 THEN versions
             ELSE IF parts[1] \notin enabledServices THEN versions
             ELSE LET imageParts == Split(parts[2], ":")
                  IN  IF Len(imageParts) = 2
                      THEN Put(versions, parts[1], imageParts[2])
                      ELSE versions

RECURSIVE versionsLines(_, _, _)
versionsLines(versions, enabledServices, lines) ==
    IF lines = << >> THEN versions
    ELSE versionsLines(versionsLine(versions, enabledServices, Head(lines)),
                       enabledServices, Tail(lines))

\* getCurrentVersions on the output of a kubectl call that succeeded
getCurrentVersions(svc, output) ==
    versionsLines(EmptyMap, getEnabledServices(svc), Split(TrimSpace(output), "\n"))

\* ------------------------------------------------------------ outcomes
\* the marks U+2705 and U+274C that open a result line
OkMark == "U+2705"
FailMark == "U+274C"

\* fmt.Sprintf of the success line ("fabu chenggong")
SuccessResult(service) == <<OkMark, " ">> \o service \o <<" ", "published">>

\* strings.ReplaceAll(output, "exit status 1", "")
ReplaceExitStatus(output) == SelectSeq(output, LAMBDA c : c # "exit status 1")

\* fmt.Sprintf of the failure line ("fabu shibai: <diagnostic>")
FailureResult(service, output) ==
    <<FailMark, " ">> \o service \o <<" ", "failed:", " ">>
    \o TrimSpace(ReplaceExitStatus(output))

\* what kubectl set image prints when it fails
KubectlError == <<"err", "\n">>

IsFailure(line) == line # EmptyString /\ line[1] = FailMark
IsSuccess(line) == line # EmptyString /\ line[1] = OkMark

\* the service a result line is about
ResultService(line) == <<line[3]>>

\* byte order of the first byte in which two atoms differ (UTF-8)
AtomRank(c) ==
    CASE c = "\t" -> 1 [] c = "\n" -> 2 [] c = " " -> 3
      [] c = "a" -> 10 [] c = "b" -> 11 [] c = "c" -> 12 [] c = "err" -> 13
      [] c = "failed:" -> 14 [] c = "g" -> 15 [] c = "published" -> 16
      [] c = OkMark -> 30 [] c = FailMark -> 31
      [] OTHER -> 20

\* s < t in the order of Go strings
RECURSIVE StringLess(_, _)
StringLess(s, t) ==
    IF t = EmptyString THEN FALSE
    ELSE IF s = EmptyString THEN TRUE
    ELSE IF AtomRank(Head(s)) # AtomRank(Head(t)) THEN AtomRank(Head(s)) < AtomRank(Head(t))
    ELSE StringLess(Tail(s), Tail(t))

RECURSIVE Insert(_, _)
Insert(sorted, s) ==
    IF sorted = << >> THEN <<s>>
    ELSE IF StringLess(s, Head(sorted)) THEN <<s>> \o sorted
    ELSE <<Head(sorted)>> \o Insert(Tail(sorted), s)

\* sort.Strings
RECURSIVE SortStrings(_)
SortStrings(lines) ==
    IF lines = << >> THEN << >>
    ELSE Insert(SortStrings(Tail(lines)), Head(lines))

\* --------------------------------------------------------------- state
VARIABLES
    variant,          \* which build runs: "main_go" or "part_001"
    isCheck,          \* os.Args[1] == "check"
    help,             \* -help
    env,              \* -env
    servicesInput,    \* -services
    versionInput,     \* -version
    disk,             \* the content of services.json
    pc,               \* where the main goroutine stands
    services,         \* s.services
    kubeContext,      \* the active context of the kubeconfig
    cluster,          \* deployment name -> image reference, in the namespace
    calls,            \* how often each external command (and switchContext) ran
    currentVersions,  \* snapshot #1
    updatedVersions,  \* snapshot #2
    selectedServices, \* the resolved target
    prompts,          \* how often the confirmation prompt was shown
    response,         \* the answer read by fmt.Scanln
    wpc,              \* service -> where its goroutine stands
    wres,             \* service -> the result line of its deployService call
    wgCount,          \* the counter of the sync.WaitGroup
    mu,               \* the holder of the sync.Mutex, or Free
    deployResults,    \* src/main.go: the shared slice of result lines
    errChan,          \* src/unnamed/part_001: the buffered channel of errors
    errors,           \* src/unnamed/part_001: the errors drained from errChan
    requests,         \* bag of the kubectl set image requests issued
    log,              \* bag of the lines written to the log file
    printed,          \* the result lines printed after the join
    result,           \* what Deploy or Check returned
    exitCode          \* the exit code of the process, Running until it exits

vars == <<variant, isCheck, help, env, servicesInput, versionInput, disk, pc,
          services, kubeContext, cluster, calls, currentVersions, updatedVersions,
          selectedServices, prompts, response, wpc, wres, wgCount, mu,
          deployResults, errChan, errors, requests, log, printed, result, exitCode>>

inputs == <<variant, isCheck, help, env, servicesInput, versionInput, disk>>

workers == <<wpc, wres, wgCount, mu, deployResults, errChan, requests>>

Running == -1
Free == << >>
NoResponse == <<"(none)">>

AllServices == {ServiceA, ServiceB, ServiceC}

Counters == {"switchContext", "current-context", "use-context", "get nodes",
             "get deployment", "set image"}

Count(c) == [calls EXCEPT ![c] = @ + 1]

LogEntry(kind, arg) == [kind |-> kind, arg |-> arg]

\* writeLog / Logger.Log: one more line in the log file
Logged(lg, kind, arg) == lg (+) SetToBag({LogEntry(kind, arg)})

\* src/main.go writes these lines from Deploy, src/unnamed/part_001 does not
LoggedByMainGo(lg, kind, arg) ==
    IF variant = "main_go" THEN Logged(lg, kind, arg) ELSE lg

RECURSIVE LoggedAll(_, _, _)
LoggedAll(lg, kind, args) ==
    IF args = << >> THEN lg
    ELSE LoggedAll(Logged(lg, kind, Head(args)), kind, Tail(args))

NoReturn == [kind |-> "none", lines |-> << >>]

\* Deploy or Check returns, and main exits: 1 on an error, 0 otherwise
Return(kind, lines) ==
    /\ result' = [kind |-> kind, lines |-> lines]
    /\ exitCode' = IF kind = "error" THEN 1 ELSE 0
    /\ pc' = "exit"

\* the answers typed at the prompt
Responses == {<<"y">>, <<"Y">>, <<"n">>, <<"N">>, EmptyString, <<"y", "e", "s">>}

\* the atoms a -services argument is made of
ScopeAlphabet == {"a", "b", "g", " ", ","}

\* -version: absent, or an explicit override
VersionInputs == {EmptyString, <<"v9">>}

InitialCluster ==
    [n \in {ServiceA, ServiceB, ServiceC, ServiceZ} |->
        Image(Environments["pre"].Registry, n, <<"v0">>)]

\* the services.json documents whole commands are run with
CommandConfigs ==
    {MkServiceConfig(ss, gs) :
        ss \in {f \in [SingleNames -> EntryStates] : f[ServiceA] = "enabled" /\ f[ServiceB] # "absent"},
        gs \in {f \in [GroupNames -> EntryStates] : f[ServiceA] = "absent" /\ f[GroupG] # "absent"}}

\* the state of a process before main has run
InitProcess ==
    /\ calls = [c \in Counters |-> 0]
    /\ currentVersions = EmptyMap
    /\ updatedVersions = EmptyMap
    /\ selectedServices = EmptyMap
    /\ prompts = 0
    /\ response = NoResponse
    /\ wpc = [s \in AllServices |-> "none"]
    /\ wres = [s \in AllServices |-> EmptyString]
    /\ wgCount = 0
    /\ mu = Free
    /\ deployResults = << >>
    /\ errChan = << >>
    /\ errors = << >>
    /\ requests = EmptyBag
    /\ log = EmptyBag
    /\ printed = << >>
    /\ result = NoReturn
    /\ exitCode = Running

Init ==
    /\ variant \in Variants
    /\ isCheck \in BOOLEAN
    /\ help \in BOOLEAN
    /\ env \in {"", "pre", "bad"}
    /\ servicesInput \in StringsUpTo(ScopeAlphabet, MaxScopeLen)
    /\ versionInput \in VersionInputs
    /\ disk \in CommandConfigs
    /\ kubeContext \in {"ctx-pre", "ctx-other"}
    /\ cluster = InitialCluster
    /\ pc = "main"
    /\ services = NoServiceConfig
    /\ InitProcess

\* ---------------------------------------------------------------- main
\* main, up to the load of the configuration
MainArgs ==
    /\ pc = "main"
    /\ IF help THEN /\ pc' = "exit"
                    /\ exitCode' = 0
                    /\ UNCHANGED result
       ELSE IF env = "" THEN /\ pc' = "exit"
                             /\ exitCode' = 1
                             /\ UNCHANGED result
       ELSE /\ pc' = "loadConfigs"
            /\ UNCHANGED <<exitCode, result>>
    /\ UNCHANGED <<inputs, services, kubeContext, cluster, calls, currentVersions,
                   updatedVersions, selectedServices, prompts, response, workers,
                   errors, log, printed>>

\* main going on when a document has failed to load
LoadConfigsUnchecked ==
    /\ pc = "loadConfigs"
    /\ \E ok \in BOOLEAN :
        /\ services' = IF ok THEN disk ELSE services
        /\ pc' = "start"
        /\ UNCHANGED <<exitCode, result>>
    /\ UNCHANGED <<inputs, kubeContext, cluster, calls, currentVersions,
                   updatedVersions, selectedServices, prompts, response, workers,
                   errors, log, printed>>

\* LoadConfigs / Init: both documents load, or the process exits with 1
LoadConfigs ==
    /\ pc = "loadConfigs"
    /\ \E ok \in BOOLEAN :
        IF ok THEN /\ services' = disk
                   /\ pc' = "start"
                   /\ UNCHANGED <<exitCode, result>>
        ELSE /\ pc' = "exit"
             /\ exitCode' = 1
             /\ UNCHANGED <<services, result>>
    /\ UNCHANGED <<inputs, kubeContext, cluster, calls, currentVersions,
                   updatedVersions, selectedServices, prompts, response, workers,
                   errors, log, printed>>

\* main calling Deploy whatever the first argument is
checkPathNever == FALSE

\* main calls Check when the first argument is check, Deploy otherwise
checkPath == isCheck

Target == Environments[env].Context

\* Deploy and Check, up to the call of switchContext
Start ==
    /\ pc = "start"
    /\ LET started == IF checkPath THEN log ELSE Logged(log, "start", EmptyString)
       IN  IF env \notin DOMAIN Environments
           THEN /\ Return("error", <<<<"invalid environment">>>>)
                /\ log' = IF checkPath THEN log
                          ELSE LoggedByMainGo(started, "invalid environment", EmptyString)
                /\ UNCHANGED calls
           ELSE /\ pc' = IF variant = "main_go" THEN "currentContext" ELSE "useContext"
                /\ calls' = Count("switchContext")
                /\ log' = started
                /\ UNCHANGED <<result, exitCode>>
    /\ UNCHANGED <<inputs, services, kubeContext, cluster, currentVersions,
                   updatedVersions, selectedServices, prompts, response, workers,
                   errors, printed>>

\* switchContext returned nil
Switched == IF checkPath THEN log ELSE Logged(log, "switched", EmptyString)

\* switchContext returned an error
SwitchFailed(line) ==
    /\ Return("error", <<<<line>>>>)
    /\ log' = IF checkPath THEN log ELSE LoggedByMainGo(log, "switch failed", EmptyString)

\* src/main.go switchContext: kubectl config current-context
SwitchCurrent ==
    /\ pc = "currentContext"
    /\ calls' = Count("current-context")
    /\ \E ok \in BOOLEAN :
        IF ok /\ kubeContext = Target
        THEN /\ pc' = "snapshot1"
             /\ log' = Switched
        ELSE /\ pc' = "useContext"
             /\ UNCHANGED log
    /\ UNCHANGED <<inputs, services, kubeContext, cluster, currentVersions,
                   updatedVersions, selectedServices, prompts, response, workers,
                   errors, printed, result, exitCode>>

\* switchContext going on when kubectl config use-context has failed
SwitchUseUnchecked ==
    /\ pc = "useContext"
    /\ calls' = Count("use-context")
    /\ \E ok \in BOOLEAN :
        /\ kubeContext' = IF ok THEN Target ELSE kubeContext
        /\ IF variant = "main_go"
           THEN pc' = "getNodes" /\ UNCHANGED log
           ELSE pc' = "snapshot1" /\ log' = Switched
        /\ UNCHANGED <<result, exitCode>>
    /\ UNCHANGED <<inputs, services, cluster, currentVersions,
                   updatedVersions, selectedServices, prompts, response, workers,
                   errors, printed>>

\* switchContext: kubectl config use-context
SwitchUse ==
    /\ pc = "useContext"
    /\ calls' = Count("use-context")
    /\ \E ok \in BOOLEAN :
        IF ok
        THEN /\ kubeContext' = Target
             /\ IF variant = "main_go"
                THEN pc' = "getNodes" /\ UNCHANGED log
                ELSE pc' = "snapshot1" /\ log' = Switched
             /\ UNCHANGED <<result, exitCode>>
        ELSE /\ SwitchFailed("switch failed")
             /\ UNCHANGED kubeContext
    /\ UNCHANGED <<inputs, services, cluster, currentVersions,
                   updatedVersions, selectedServices, prompts, response, workers,
                   errors, printed>>

\* src/main.go switchContext: kubectl get nodes
SwitchProbe ==
    /\ pc = "getNodes"
    /\ calls' = Count("get nodes")
    /\ \E ok \in BOOLEAN :
        IF ok
        THEN /\ pc' = "snapshot1"
             /\ log' = Switched
             /\ UNCHANGED <<result, exitCode>>
        ELSE SwitchFailed("cluster check failed")
    /\ UNCHANGED <<inputs, services, kubeContext, cluster, currentVersions,
                   updatedVersions, selectedServices, prompts, response, workers,
                   errors, printed>>

\* the call of getCurrentVersions before the resolution
Snapshot1 ==
    /\ pc = "snapshot1"
    /\ calls' = Count("get deployment")
    /\ \E ok \in BOOLEAN :
        IF ok
        THEN /\ currentVersions' = getCurrentVersions(services, kubectlGetDeployment(cluster))
             /\ pc' = "resolve"
             /\ UNCHANGED <<log, result, exitCode>>
        ELSE IF variant = "part_001" /\ checkPath
        THEN /\ Return("error", <<<<"get deployment failed">>>>)
             /\ UNCHANGED <<currentVersions, log>>
        ELSE /\ currentVersions' = EmptyMap
             /\ pc' = "resolve"
             /\ log' = IF checkPath THEN log ELSE Logged(log, "warning: snapshot", EmptyString)
             /\ UNCHANGED <<result, exitCode>>
    /\ UNCHANGED <<inputs, services, kubeContext, cluster, updatedVersions,
                   selectedServices, prompts, response, workers, errors, printed>>

\* a test of the target that never finds it empty
noneSelectedNever(sel) == FALSE

\* len(selectedServices) == 0
noneSelected(sel) == DOMAIN sel = {}

\* the call of getSelectedServices, and what Deploy and Check do with it
Resolve ==
    /\ pc = "resolve"
    /\ \E groupOrder \in Orders(DOMAIN services.ServiceGroups) :
        LET r == getSelectedServices(variant, services, servicesInput, versionInput, groupOrder)
            warned == LoggedAll(log, "warning: token", r.warnings)
        IN  /\ selectedServices' = r.selected
            /\ IF noneSelected(r.selected)
               THEN /\ Return("error", <<<<"no services">>>>)
                    /\ log' = IF checkPath THEN warned
                              ELSE LoggedByMainGo(warned, "no services", EmptyString)
               ELSE IF checkPath
               THEN /\ Return("nil", << >>)
                    /\ log' = warned
               ELSE /\ pc' = "confirm"
                    /\ log' = Logged(warned, "selected", EmptyString)
                    /\ UNCHANGED <<result, exitCode>>
    /\ UNCHANGED <<inputs, services, kubeContext, cluster, calls, currentVersions,
                   updatedVersions, prompts, response, workers, errors, printed>>

\* a prompt that takes every answer but n for a yes
AffirmativeUnlessNo(r) == ToLower(r) # <<"n">>

\* strings.ToLower(response) == "y"
Affirmative(r) == ToLower(r) = <<"y">>

\* confirmDeploy, and the branch of Deploy on its result
confirmDeploy ==
    /\ pc = "confirm"
    /\ prompts' = prompts + 1
    /\ \E r \in Responses :
        /\ response' = r
        /\ IF Affirmative(r)
           THEN /\ pc' = "fanout"
                /\ log' = Logged(log, "confirmed", EmptyString)
                /\ UNCHANGED <<result, exitCode>>
           ELSE /\ Return("nil", << >>)
                /\ log' = Logged(log, "cancelled", EmptyString)
    /\ UNCHANGED <<inputs, services, kubeContext, cluster, calls, currentVersions,
                   updatedVersions, selectedServices, workers, errors, printed>>

\* ---------------------------------------------------------- apply phase
Registry == Environments[env].Registry

\* a channel with room for one error less than there are services
ErrChanCapShort == Cardinality(DOMAIN selectedServices) - 1

\* make(chan error, len(selectedServices))
ErrChanCap == Cardinality(DOMAIN selectedServices)

main_unchanged == <<inputs, services, kubeContext, currentVersions, updatedVersions,
                    selectedServices, prompts, response, errors, printed, result, exitCode>>

\* one turn of the loop over selectedServices: wg.Add(1) and the go statement
Spawn(s) ==
    /\ pc = "fanout"
    /\ s \in DOMAIN selectedServices
    /\ wpc[s] = "none"
    /\ wgCount' = wgCount + 1
    /\ wpc' = [wpc EXCEPT ![s] = "spawned"]
    /\ pc' = IF \A o \in DOMAIN selectedServices : o = s \/ wpc[o] # "none"
             THEN "wait" ELSE "fanout"
    /\ UNCHANGED <<main_unchanged, cluster, calls, log, wres, mu, deployResults,
                   errChan, requests>>

\* deployService, up to the start of kubectl set image
deployServiceCall(s) ==
    /\ wpc[s] = "spawned"
    /\ requests' = requests (+) SetToBag({[service |-> s,
                                           image |-> Image(Registry, s, selectedServices[s])]})
    /\ calls' = Count("set image")
    /\ log' = Logged(log, "publishing", s)
    /\ wpc' = [wpc EXCEPT ![s] = "running"]
    /\ UNCHANGED <<main_unchanged, pc, cluster, wres, wgCount, mu, deployResults, errChan>>

\* where a goroutine goes once deployService has returned
AfterDeployService(ok) ==
    IF variant = "main_go" THEN "lock"
    ELSE IF ok THEN "deferred" ELSE "send"

\* deployService, from the return of kubectl set image
deployServiceReturn(s) ==
    /\ wpc[s] = "running"
    /\ \E ok \in BOOLEAN :
        /\ ok => s \in DOMAIN cluster
        /\ cluster' = IF ok THEN [cluster EXCEPT ![s] = Image(Registry, s, selectedServices[s])]
                      ELSE cluster
        /\ wres' = [wres EXCEPT ![s] = IF ok THEN SuccessResult(s)
                                       ELSE FailureResult(s, KubectlError)]
        /\ log' = Logged(log, IF ok THEN "published" ELSE "publish failed", s)
        /\ wpc' = [wpc EXCEPT ![s] = AfterDeployService(ok)]
    /\ UNCHANGED <<main_unchanged, pc, calls, wgCount, mu, deployResults, errChan, requests>>

\* src/main.go: mu.Lock()
Lock(s) ==
    /\ wpc[s] = "lock"
    /\ mu = Free
    /\ mu' = s
    /\ wpc' = [wpc EXCEPT ![s] = "append"]
    /\ UNCHANGED <<main_unchanged, pc, cluster, calls, log, wres, wgCount, deployResults,
                   errChan, requests>>

\* src/main.go: the append and the log line under the mutex
AppendResult(s) ==
    /\ wpc[s] = "append"
    /\ deployResults' = Append(deployResults, wres[s])
    /\ log' = Logged(log, "result", s)
    /\ wpc' = [wpc EXCEPT ![s] = "unlock"]
    /\ UNCHANGED <<main_unchanged, pc, cluster, calls, wres, wgCount, mu, errChan, requests>>

\* src/main.go: mu.Unlock()
Unlock(s) ==
    /\ wpc[s] = "unlock"
    /\ mu' = Free
    /\ wpc' = [wpc EXCEPT ![s] = "deferred"]
    /\ UNCHANGED <<main_unchanged, pc, cluster, calls, log, wres, wgCount, deployResults,
                   errChan, requests>>

\* src/unnamed/part_001: errChan <- err, which blocks while the buffer is full
Send(s) ==
    /\ wpc[s] = "send"
    /\ Len(errChan) < ErrChanCap
    /\ errChan' = Append(errChan, wres[s])
    /\ wpc' = [wpc EXCEPT ![s] = "deferred"]
    /\ UNCHANGED <<main_unchanged, pc, cluster, calls, log, wres, wgCount, mu, deployResults,
                   requests>>

\* defer wg.Done()
Done(s) ==
    /\ wpc[s] = "deferred"
    /\ wgCount' = wgCount - 1
    /\ wpc' = [wpc EXCEPT ![s] = "done"]
    /\ UNCHANGED <<main_unchanged, pc, cluster, calls, log, wres, mu, deployResults,
                   errChan, requests>>

\* a wait that returns while one task is still running
WaitReturnsEarly == wgCount <= 1

\* wg.Wait() returns when the counter is zero
WaitReturns == wgCount = 0

Wait ==
    /\ pc = "wait"
    /\ WaitReturns
    /\ pc' = "joined"
    /\ UNCHANGED <<inputs, services, kubeContext, cluster, calls, currentVersions,
                   updatedVersions, selectedServices, prompts, response, workers,
                   errors, log, printed, result, exitCode>>

\* what Deploy returns for the errors drained from the channel
ErrorsReturn(errs) == <<<<"errors during deployment:">>>> \o errs

\* Deploy between the join and the second snapshot: src/main.go sorts and
\* prints the result lines; src/unnamed/part_001 closes and drains errChan and
\* returns an error when it held one
Collect ==
    /\ pc = "joined"
    /\ IF variant = "main_go"
       THEN /\ printed' = SortStrings(deployResults)
            /\ pc' = "snapshot2"
            /\ UNCHANGED <<errors, result, exitCode>>
       ELSE /\ errors' = errChan
            /\ IF Len(errChan) > 0
               THEN Return("error", ErrorsReturn(errChan))
               ELSE pc' = "snapshot2" /\ UNCHANGED <<result, exitCode>>
            /\ UNCHANGED printed
    /\ UNCHANGED <<inputs, services, kubeContext, cluster, calls, currentVersions,
                   updatedVersions, selectedServices, prompts, response, workers, log>>

\* the call of getCurrentVersions after the apply phase, and the return
Snapshot2 ==
    /\ pc = "snapshot2"
    /\ calls' = Count("get deployment")
    /\ \E ok \in BOOLEAN :
        IF ok
        THEN /\ updatedVersions' = getCurrentVersions(services, kubectlGetDeployment(cluster))
             /\ log' = Logged(log, "complete", EmptyString)
        ELSE /\ updatedVersions' = EmptyMap
             /\ log' = Logged(Logged(log, "warning: snapshot", EmptyString),
                              "complete", EmptyString)
    /\ Return("nil", << >>)
    /\ UNCHANGED <<inputs, services, kubeContext, cluster, currentVersions,
                   selectedServices, prompts, response, workers, errors, printed>>

Worker(s) ==
    \/ deployServiceCall(s)
    \/ deployServiceReturn(s)
    \/ Lock(s)
    \/ AppendResult(s)
    \/ Unlock(s)
    \/ Send(s)
    \/ Done(s)

Next ==
    \/ MainArgs
    \/ LoadConfigs
    \/ Start
    \/ SwitchCurrent
    \/ SwitchUse
    \/ SwitchProbe
    \/ Snapshot1
    \/ Resolve
    \/ confirmDeploy
    \/ \E s \in AllServices : Spawn(s)
    \/ \E s \in AllServices : Worker(s)
    \/ Wait
    \/ Collect
    \/ Snapshot2

Spec == Init /\ [][Next]_vars

\* the steps of the main goroutine
MainStep ==
    \/ MainArgs
    \/ LoadConfigs
    \/ Start
    \/ SwitchCurrent
    \/ SwitchUse
    \/ SwitchProbe
    \/ Snapshot1
    \/ Resolve
    \/ confirmDeploy
    \/ \E s \in AllServices : Spawn(s)
    \/ Wait
    \/ Collect
    \/ Snapshot2

\* the Go scheduler runs every goroutine that can run, the prompt is answered
\* and every external command returns
Fairness == WF_vars(MainStep) /\ \A s \in AllServices : WF_vars(Worker(s))

SpecFair == Spec /\ Fairness

\* ------------------------------------------- the two functions on their own
PortRegistry == <<"reg", ":", "5000">>

\* the image references a deployment is listed with
ImageForms(n) ==
    {Image(Environments["pre"].Registry, n, <<"v0">>),
     Image(PortRegistry, n, <<"v0">>),
     Environments["pre"].Registry \o <<"/">> \o n}

\* the deployments of a namespace: each of a, b, c absent or present with one
\* of the image forms, z (no entry of services.json) absent or present
Clusters ==
    UNION {[present -> UNION {ImageForms(n) : n \in present}] :
              present \in SUBSET {ServiceA, ServiceB, ServiceC, ServiceZ}}

ListedClusters == {cl \in Clusters : \A n \in DOMAIN cl : cl[n] \in ImageForms(n)}

\* a loaded Service on which getSelectedServices or getCurrentVersions is called
InitResolve ==
    /\ variant \in Variants
    /\ isCheck = FALSE
    /\ help = FALSE
    /\ env = "pre"
    /\ disk \in ServiceConfigs
    /\ kubeContext = "ctx-pre"
    /\ InitProcess
    /\ services = disk
    /\ \/ /\ pc = "callResolve"
          /\ servicesInput \in StringsUpTo(ScopeAlphabet, MaxInputLen)
          /\ versionInput \in VersionInputs
          /\ cluster = InitialCluster
       \/ /\ pc = "callSnapshot"
          /\ servicesInput = EmptyString
          /\ versionInput = EmptyString
          /\ cluster \in ListedClusters

\* one call of getSelectedServices
getSelectedServicesCall ==
    /\ pc = "callResolve"
    /\ \E groupOrder \in Orders(DOMAIN services.ServiceGroups) :
        LET r == getSelectedServices(variant, services, servicesInput, versionInput, groupOrder)
        IN  /\ selectedServices' = r.selected
            /\ log' = LoggedAll(log, "warning: token", r.warnings)
    /\ pc' = "resolved"
    /\ UNCHANGED <<inputs, services, kubeContext, cluster, calls, currentVersions,
                   updatedVersions, prompts, response, workers, errors, printed,
                   result, exitCode>>

\* one call of getCurrentVersions in which kubectl succeeds
getCurrentVersionsCall ==
    /\ pc = "callSnapshot"
    /\ calls' = Count("get deployment")
    /\ currentVersions' = getCurrentVersions(services, kubectlGetDeployment(cluster))
    /\ pc' = "snapshotted"
    /\ UNCHANGED <<inputs, services, kubeContext, cluster, updatedVersions,
                   selectedServices, prompts, response, workers, errors, log, printed,
                   result, exitCode>>

NextResolve ==
    \/ getSelectedServicesCall
    \/ getCurrentVersionsCall

SpecResolve == InitResolve /\ [][NextResolve]_vars

\* ====================================================== resolver claims
\* what the claims call enabled: an enabled single service or a member of an
\* enabled group
EnabledSingle(svc, n) == n \in DOMAIN svc.SingleServices /\ svc.SingleServices[n].Enabled

EnabledGroup(svc, g) == g \in DOMAIN svc.ServiceGroups /\ svc.ServiceGroups[g].Enabled

EnabledName(svc, n) ==
    \/ EnabledSingle(svc, n)
    \/ \E g \in DOMAIN svc.ServiceGroups :
          /\ svc.ServiceGroups[g].Enabled
          /\ \E i \in 1..Len(svc.ServiceGroups[g].Services) : svc.ServiceGroups[g].Services[i] = n

DisabledEntries(svc) ==
    {n \in DOMAIN svc.SingleServices : ~svc.SingleServices[n].Enabled}
    \cup {g \in DOMAIN svc.ServiceGroups : ~svc.ServiceGroups[g].Enabled}

\* the tokens of -services, as typed and white-space trimmed
RawTokens == Split(servicesInput, ",")
Tokens == [i \in 1..Len(RawTokens) |-> TrimSpace(RawTokens[i])]

\* C7: no key of the resolved target and no key of the observed state comes
\* from a disabled entry: each key is an enabled single service or a member of
\* an enabled group
C7_DisabledNeverAppears ==
    /\ pc = "resolved" => \A n \in DOMAIN selectedServices : EnabledName(services, n)
    /\ pc = "snapshotted" => \A n \in DOMAIN currentVersions : EnabledName(services, n)

\* C7 witness: a disabled entry is named in -services next to a token that
\* selects something
C7_Witness ==
    /\ pc = "resolved"
    /\ DOMAIN selectedServices # {}
    /\ \E i \in 1..Len(Tokens) : Tokens[i] \in DisabledEntries(services)

\* C8: with a non-empty -version every value of the resolved target is that
\* version, for an empty and for a non-empty -services
C8_OverrideWins ==
    (pc = "resolved" /\ versionInput # EmptyString)
        => \A n \in DOMAIN selectedServices : selectedServices[n] = versionInput

\* -services lists every enabled single service and every enabled group name
FullListing ==
    /\ servicesInput # EmptyString
    /\ Range(RawTokens) = {n \in DOMAIN services.SingleServices : EnabledSingle(services, n)}
                          \cup {g \in DOMAIN services.ServiceGroups : EnabledGroup(services, g)}

\* C9: the target resolved for a full explicit listing is the target resolved
\* for an empty -services
C9_EmptyScopeIsFullListing ==
    (pc = "resolved" /\ FullListing)
        => \A groupOrder \in Orders(DOMAIN services.ServiceGroups) :
              selectedServices
                = getSelectedServices(variant, services, EmptyString, versionInput,
                                      groupOrder).selected

Matches(token) == EnabledSingle(services, token) \/ EnabledGroup(services, token)

\* the keys a matching token contributes
ContributedKeys(token) ==
    (IF EnabledSingle(services, token) THEN {token} ELSE {})
    \cup (IF EnabledGroup(services, token)
          THEN Range(services.ServiceGroups[token].Services) ELSE {})

\* the versions a matching token contributes for the key n
ContributedVersions(token, n) ==
    (IF EnabledSingle(services, token) /\ n = token
     THEN {selectVersion(versionInput, services.SingleServices[token].Version)} ELSE {})
    \cup (IF EnabledGroup(services, token) /\ n \in Range(services.ServiceGroups[token].Services)
          THEN {selectVersion(versionInput, services.ServiceGroups[token].Version)} ELSE {})

\* C10: with a non-empty -services each trimmed token that matches no enabled
\* entry is skipped with one warning, and the target is the union of what the
\* matching tokens contribute (empty when none matches)
C10_UnknownTokensSkipped ==
    (pc = "resolved" /\ servicesInput # EmptyString)
        => /\ \A i \in 1..Len(Tokens) :
                ~Matches(Tokens[i])
                    => CopiesIn(LogEntry("warning: token", Tokens[i]), log)
                         = Cardinality({j \in 1..Len(Tokens) : Tokens[j] = Tokens[i]})
           /\ DOMAIN selectedServices
                = UNION {ContributedKeys(Tokens[i]) : i \in 1..Len(Tokens)}
           /\ \A n \in DOMAIN selectedServices :
                selectedServices[n]
                    \in UNION {ContributedVersions(Tokens[i], n) : i \in 1..Len(Tokens)}

\* ======================================================= command claims
\* the prompt was answered with y or Y
Confirmed == response \in {<<"y">>, <<"Y">>}

\* the prompt was answered, with anything else
Declined == response # NoResponse /\ ~Confirmed

\* Deploy is past wg.Wait()
ApplyReturned == Confirmed /\ pc \in {"joined", "snapshot2", "exit"}

Selected == DOMAIN selectedServices

RequestFor(s) == [service |-> s, image |-> Image(Registry, s, selectedServices[s])]

FailedServices == {s \in Selected : IsFailure(wres[s])}
SucceededServices == {s \in Selected : IsSuccess(wres[s])}

\* C1: each request issued is the one of a pair of the target and is issued
\* once; when the apply phase has returned, every pair of the target has had
\* its request, every task has completed whatever the other outcomes were, and
\* each update that succeeded is still applied
C1_OneUpdatePerService ==
    /\ \A r \in BagToSet(requests) :
          /\ r.service \in Selected
          /\ r = RequestFor(r.service)
          /\ CopiesIn(r, requests) = 1
    /\ ApplyReturned =>
          /\ \A s \in Selected : CopiesIn(RequestFor(s), requests) = 1 /\ wpc[s] = "done"
          /\ BagCardinality(requests) = Cardinality(Selected)
          /\ FailedServices \cup SucceededServices = Selected
          /\ \A s \in SucceededServices : cluster[s] = RequestFor(s).image

\* C1 witness: the apply phase has returned with one update failed and
\* another succeeded
C1_Witness ==
    /\ ApplyReturned
    /\ FailedServices # {}
    /\ SucceededServices # {}

\* C2: a confirmed Deploy with a failed update returns an error that holds
\* the line of every failed service, exits with 1, and does so only when all
\* tasks have completed; without a failed update it returns nil and exits 0
C2_FailureReported ==
    (pc = "exit" /\ Confirmed)
        => IF FailedServices # {}
           THEN /\ result.kind = "error"
                /\ exitCode = 1
                /\ \A s \in FailedServices : wres[s] \in Range(result.lines)
                /\ \A s \in Selected : wpc[s] = "done"
           ELSE result.kind = "nil" /\ exitCode = 0

\* the shared outcome collection of the build
Outcomes == IF variant = "main_go" THEN deployResults ELSE errChan

\* C3: after the join the shared collection holds one outcome for each
\* selected service, the K failures and the N-K successes
C3_OneOutcomePerService ==
    pc = "joined"
        => /\ Len(Outcomes) = Cardinality(Selected)
           /\ \A s \in Selected :
                Cardinality({i \in 1..Len(Outcomes) : Outcomes[i] = wres[s]}) = 1
           /\ Cardinality({i \in 1..Len(Outcomes) : IsFailure(Outcomes[i])})
                = Cardinality(FailedServices)
           /\ Cardinality({i \in 1..Len(Outcomes) : IsSuccess(Outcomes[i])})
                = Cardinality(SucceededServices)

\* C4: a request is issued only once the prompt has been answered y or Y; on
\* any other answer Deploy has issued no request, has logged the cancellation
\* and returns nil, exit code 0
C4_ConfirmationGate ==
    /\ requests # EmptyBag => Confirmed
    /\ calls["set image"] > 0 => Confirmed
    /\ Declined =>
          /\ requests = EmptyBag
          /\ calls["set image"] = 0
          /\ cluster = InitialCluster
          /\ CopiesIn(LogEntry("cancelled", EmptyString), log) = 1
          /\ pc = "exit"
          /\ result.kind = "nil"
          /\ exitCode = 0

\* C4 witness: the prompt was answered with an empty line
C4_Witness ==
    /\ response = EmptyString
    /\ prompts = 1
    /\ pc = "exit"

\* C5: on the check path no update request is issued and the prompt is not
\* shown
C5_CheckIsReadOnly ==
    isCheck =>
        /\ requests = EmptyBag
        /\ calls["set image"] = 0
        /\ prompts = 0
        /\ response = NoResponse
        /\ cluster = InitialCluster

\* C5 witness: a check that resolved a non-empty target has returned
C5_Witness ==
    /\ isCheck
    /\ pc = "exit"
    /\ result.kind = "nil"
    /\ Selected # {}

SwitchErrors == {<<<<"switch failed">>>>, <<<<"cluster check failed">>>>}

C11_EmptyTargetIsTerminal ==
    [][(pc = "resolve" /\ selectedServices' = EmptyMap)
          => /\ pc' = "exit"
             /\ result'.kind = "error"
             /\ exitCode' = 1
             /\ prompts' = 0
             /\ requests' = EmptyBag
             /\ calls'["set image"] = 0
             /\ cluster' = InitialCluster
             /\ services' = services
             /\ services' = disk]_vars

\* C11 witness: a command has ended on an empty target
C11_Witness ==
    /\ pc = "exit"
    /\ services = disk
    /\ selectedServices = EmptyMap
    /\ result = [kind |-> "error", lines |-> <<<<"no services">>>>]

\* C12: a step that lists the deployments never returns an error: the first
\* listing is followed by the resolution, the second by the return of nil
C12_SnapshotFailureNotFatal ==
    [][(pc = "snapshot1" => pc' = "resolve" /\ result' = NoReturn)
       /\ (pc = "snapshot2" => result'.kind = "nil" /\ exitCode' = 0)]_vars

\* a document failed to load: main is past LoadConfigs with nothing loaded
LoadFailed ==
    /\ pc \notin {"main", "loadConfigs"}
    /\ ~help
    /\ env # ""
    /\ services = NoServiceConfig

UnknownEnvironment == ~help /\ env # "" /\ env \notin DOMAIN Environments

NoClusterCommand == (\A c \in Counters : calls[c] = 0) /\ cluster = InitialCluster

\* C13: when a document fails to load or the environment is not in the map,
\* no external cluster command is ever invoked and the process exits with 1
C13_ConfigErrorsBeforeCluster ==
    /\ LoadFailed => pc = "exit" /\ exitCode = 1 /\ NoClusterCommand
    /\ UnknownEnvironment => NoClusterCommand /\ (pc = "exit" => exitCode = 1)

\* C13 witness: Deploy or Check has returned on an unknown environment
C13_Witness ==
    /\ pc = "exit"
    /\ UnknownEnvironment
    /\ services = disk
    /\ result.kind = "error"

PriorVersion == <<"v0">>

\* C14: a confirmed Deploy that has returned has made the second listing of
\* the deployments, after every task had completed; a listing that succeeded
\* shows each updated service at its new version, each failed one at its
\* prior version
C14_SecondSnapshotAfterJoin ==
    /\ (calls["get deployment"] = 2) => \A s \in Selected : wpc[s] = "done"
    /\ (pc = "exit" /\ Confirmed) =>
          /\ calls["get deployment"] = 2
          /\ \A s \in SucceededServices \cap DOMAIN updatedVersions :
                updatedVersions[s] = selectedServices[s]
          /\ \A s \in FailedServices \cap DOMAIN updatedVersions :
                updatedVersions[s] = PriorVersion

\* C15: the switch command is issued only when the active context is not the
\* target, and once the switch has succeeded the reachability probe is made
\* before switchContext returns
C15_SwitchOnlyWhenNeeded ==
    /\ pc = "useContext" => kubeContext # Target
    /\ (calls["use-context"] = 1 /\ pc \notin {"useContext", "getNodes"}
            /\ ~(result.kind = "error" /\ result.lines = <<<<"switch failed">>>>))
          => calls["get nodes"] = 1
    /\ calls["get nodes"] = 1 => calls["use-context"] = 1 /\ kubeContext = Target

\* the result lines shown to the user after the apply phase
Reported == IF variant = "main_go" THEN printed ELSE errors

\* C16: the result lines reported after the apply phase are in the order of
\* the service names
C16_ResultsOrderedByName ==
    \A i \in 1..Len(Reported) : \A j \in 1..Len(Reported) :
        i < j => ~StringLess(ResultService(Reported[j]), ResultService(Reported[i]))

\* the substring after the last ":" of an image reference
AfterLastColon(image) == Split(image, ":")[Len(Split(image, ":"))]

\* C17: each listed deployment of an enabled service whose image reference
\* holds a ":" is recorded with the substring after the last ":"
C17_TagAfterLastColon ==
    pc = "snapshotted"
        => \A n \in DOMAIN cluster :
              (EnabledName(services, n) /\ ":" \in Range(cluster[n]))
                  => /\ n \in DOMAIN currentVersions
                     /\ currentVersions[n] = AfterLastColon(cluster[n])

\* C19: the target resolved does not depend on the order in which the map of
\* groups is ranged over
C19_ResolutionDeterministic ==
    pc = "resolved"
        => \A groupOrder \in Orders(DOMAIN services.ServiceGroups) :
              selectedServices
                = getSelectedServices(variant, services, servicesInput, versionInput,
                                      groupOrder).selected

\* C18: once Deploy has started the apply phase, every task completes and
\* Deploy returns
C18_ApplyTerminates ==
    (pc = "fanout") ~> (pc = "exit" /\ \A s \in Selected : wpc[s] = "done")

\* C18 witness: Deploy has returned from an apply phase of three tasks in
\* which every update failed
C18_Witness ==
    /\ pc = "exit"
    /\ Confirmed
    /\ Cardinality(Selected) = 3
    /\ FailedServices = Selected

====
